---- MODULE Spec2Model ----
(***************************************************************************)
(* Hologram verification pipeline of MinaID: the coordinator               *)
(* (HologramVerifier), the FrameAligner, the ChromaticityAccumulator and   *)
(* the DynamicBehaviorVerifier, as state machines, and the coordinator's   *)
(* non-maximum suppression as a pure operator.                             *)
(*                                                                         *)
(* An image is a record [px, nkp, gen]: px is the tuple of its pixels'      *)
(* colours, nkp the number of keypoints detectAndCompute finds in it, gen  *)
(* the number of exponential blends it went through.  Results of           *)
(* the vision library that depend on image content outside this            *)
(* abstraction (descriptor matching, the homography solver, the region     *)
(* proposals, the difference energy) are inputs of the actions.            *)
(***************************************************************************)
EXTENDS Integers, Sequences, FiniteSets, TLC

\* ------------------------------------------------------------------ bounds
MaxFrames == 5          \* frames the coordinator receives before a reset is forced
MaxClipLen == 3         \* frames in one video source
MaxBlends == 1          \* update_reference_frame blends of one reference
BufferSize == 2         \* buffer_size of the accumulator under test
BackgroundFrames == 4   \* background_frames of the verifier under test
UpdateInterval == 2     \* update_interval of the coordinator under test
GridW == 2              \* NMS check: frame width
GridH == 5              \* NMS check: frame height
MaxBoxes == 4           \* NMS check: candidates in one call
MaxAccFrames == 6       \* accumulator check: frames added before a reset is forced
MaxVerFrames == 5       \* verifier check: frames added before a reset is forced
MaxTotalFrames == 35    \* verdict check: total_frames of an aggregate
MaxDetections == 4      \* verdict check: detection records of an aggregate
MaxRequests == 3        \* service check: /verify_hologram requests received

\* ------------------------------------------------------- program constants
MinKeypoints == 10            \* set_reference_frame / align_frame
MinGoodMatches == 10          \* align_frame
ConfidenceThreshold == 60     \* confidence_threshold 0.6, in percent
HueEnergyThreshold == 15      \* hue_energy_threshold 0.15, in percent
SaturationThreshold == 200    \* saturation_threshold 0.2, in thousandths
HighlightThreshold == 250     \* highlight_threshold
MinBackgroundRing == 3        \* _update_background_model
IouThreshold == 50            \* iou_threshold 0.5, in percent
ServiceThreshold == 60        \* api.CONFIDENCE_THRESHOLD 0.6, in percent
MinDetectionFrames == 3       \* verify_hologram: max(3, ...)
FrameShare == 10              \* verify_hologram: total_frames // 10

\* Python's None and a present value: the empty and the one-element tuple
None == <<>>
Some(x) == <<x>>
Get(o) == o[1]

\* ------------------------------------------------------------------ images
\* 8-bit RGB of a pixel colour
RGB(px) ==
  CASE px = "gray"   -> <<128, 128, 128>>
    [] px = "red"    -> <<220, 30, 60>>
    [] px = "yellow" -> <<200, 200, 40>>
    [] px = "blue"   -> <<40, 60, 220>>
    [] px = "pale"   -> <<201, 181, 171>>

KeypointCounts == {0, 9, 12}

\* frames a video source or a caller can deliver: a blank one, one with too
\* few features, and feature-rich ones of each colour
Frames ==
  {[px |-> <<"gray", "gray">>, nkp |-> 0, gen |-> 0],
   [px |-> <<"gray", "gray">>, nkp |-> 9, gen |-> 0],
   [px |-> <<"gray", "gray">>, nkp |-> 12, gen |-> 0],
   [px |-> <<"red", "gray">>, nkp |-> 12, gen |-> 0]}

\* the pixel positions of an image (frame.shape)
Pixels(img) == DOMAIN img.px

Max2(a, b) == IF a >= b THEN a ELSE b
Min2(a, b) == IF a <= b THEN a ELSE b

Last(s) == s[Len(s)]

\* a bounded buffer that refuses the new element when it is full (mutant of
\* DequeAppend)
DequeAppendKeepsOldest(buf, x, maxlen) ==
  IF maxlen = 0 THEN <<>>
  ELSE IF Len(buf) >= maxlen THEN buf
  ELSE Append(buf, x)

\* collections.deque(maxlen=n).append
DequeAppend(buf, x, maxlen) ==
  IF maxlen = 0 THEN <<>>
  ELSE IF Len(buf) >= maxlen THEN Append(Tail(buf), x)
  ELSE Append(buf, x)

\* ------------------------------------------------------------ FrameAligner
\* detector.detectAndCompute: keypoints (an empty tuple when nothing is
\* found) and descriptors (None when nothing is found)
DetectKeypoints(img) == [of |-> img, n |-> img.nkp]
DetectDescriptors(img) == IF img.nkp = 0 THEN None ELSE Some([of |-> img, n |-> img.nkp])

FrameAlignerInit ==
  [reference_frame |-> None, reference_keypoints |-> None,
   reference_descriptors |-> None]

\* set_reference_frame: the detector's output is stored before the feature
\* count is tested; ValueError is raised before the image is stored
SetReferenceFrame(a, frame) ==
  LET kp == DetectKeypoints(frame)
      desc == DetectDescriptors(frame)
      raised == desc = None \/ kp.n < MinKeypoints
  IN [fa |-> [reference_frame |-> IF raised THEN a.reference_frame ELSE Some(frame),
              reference_keypoints |-> Some(kp),
              reference_descriptors |-> desc],
      raised |-> raised]

\* what the matcher and the solver answer on one frame
MatchOutcomes ==
  {[good |-> MinGoodMatches, solved |-> TRUE, throws |-> FALSE],
   [good |-> MinGoodMatches - 1, solved |-> TRUE, throws |-> FALSE],
   [good |-> MinGoodMatches, solved |-> FALSE, throws |-> FALSE],
   [good |-> MinGoodMatches, solved |-> TRUE, throws |-> TRUE]}

\* align_frame with the matching and the solver outside the try block: their
\* exception leaves align_frame (mutant of AlignFrame)
AlignFrameUncaught(a, frame, m) ==
  IF a.reference_frame = None
    THEN [fa |-> a, aligned |-> frame, ok |-> FALSE, raised |-> TRUE]
  ELSE IF DetectDescriptors(frame) = None \/ frame.nkp < MinKeypoints
    THEN [fa |-> a, aligned |-> frame, ok |-> FALSE, raised |-> FALSE]
  ELSE IF a.reference_descriptors = None \/ m.throws
    THEN [fa |-> a, aligned |-> frame, ok |-> FALSE, raised |-> TRUE]
  ELSE IF m.good < MinGoodMatches
    THEN [fa |-> a, aligned |-> frame, ok |-> FALSE, raised |-> FALSE]
  ELSE IF ~m.solved
    THEN [fa |-> a, aligned |-> frame, ok |-> FALSE, raised |-> FALSE]
  ELSE [fa |-> a, aligned |-> frame, ok |-> TRUE, raised |-> FALSE]

\* align_frame storing the features it detects in the frame as the
\* reference features (mutant of AlignFrame)
AlignFrameCachesFeatures(a, frame, m) ==
  LET cached == [a EXCEPT !.reference_keypoints = Some(DetectKeypoints(frame)),
                          !.reference_descriptors = DetectDescriptors(frame)]
  IN IF a.reference_frame = None
       THEN [fa |-> a, aligned |-> frame, ok |-> FALSE, raised |-> TRUE]
     ELSE IF DetectDescriptors(frame) = None \/ frame.nkp < MinKeypoints
       THEN [fa |-> cached, aligned |-> frame, ok |-> FALSE, raised |-> FALSE]
     ELSE IF a.reference_descriptors = None \/ m.throws
       THEN [fa |-> cached, aligned |-> frame, ok |-> FALSE, raised |-> FALSE]
     ELSE IF m.good < MinGoodMatches
       THEN [fa |-> cached, aligned |-> frame, ok |-> FALSE, raised |-> FALSE]
     ELSE IF ~m.solved
       THEN [fa |-> cached, aligned |-> frame, ok |-> FALSE, raised |-> FALSE]
     ELSE [fa |-> cached, aligned |-> frame, ok |-> TRUE, raised |-> FALSE]

\* align_frame: the aligner after the call, the frame handed back and the
\* success flag; ValueError when no reference image is cached
AlignFrame(a, frame, m) ==
  IF a.reference_frame = None
    THEN [fa |-> a, aligned |-> frame, ok |-> FALSE, raised |-> TRUE]
  ELSE IF DetectDescriptors(frame) = None \/ frame.nkp < MinKeypoints
    THEN [fa |-> a, aligned |-> frame, ok |-> FALSE, raised |-> FALSE]
  ELSE IF a.reference_descriptors = None \/ m.throws
    THEN [fa |-> a, aligned |-> frame, ok |-> FALSE, raised |-> FALSE]
  ELSE IF m.good < MinGoodMatches
    THEN [fa |-> a, aligned |-> frame, ok |-> FALSE, raised |-> FALSE]
  ELSE IF ~m.solved
    THEN [fa |-> a, aligned |-> frame, ok |-> FALSE, raised |-> FALSE]
  ELSE [fa |-> a, aligned |-> frame, ok |-> TRUE, raised |-> FALSE]

\* cv2.addWeighted(reference, 1 - alpha, frame, alpha): a new image; what
\* the detector finds in it is an input (nkp)
Blend(ref, frame, nkp) == [px |-> ref.px, nkp |-> nkp, gen |-> ref.gen + 1]

\* update_reference_frame: the blend replaces the reference image, then
\* set_reference_frame runs on the blend
UpdateReferenceFrame(a, frame, nkp) ==
  IF a.reference_frame = None
    THEN SetReferenceFrame(a, frame)
    ELSE LET blended == Blend(Get(a.reference_frame), frame, nkp)
         IN SetReferenceFrame([a EXCEPT !.reference_frame = Some(blended)], blended)

\* ------------------------------------------------- ChromaticityAccumulator
MaxRGB(c) == Max2(Max2(c[1], c[2]), c[3])
MinRGB(c) == Min2(Min2(c[1], c[2]), c[3])

\* saturation (max - min) / max in thousandths, 0 for a black pixel
Saturation(c) ==
  IF MaxRGB(c) > 0 THEN ((MaxRGB(c) - MinRGB(c)) * 1000) \div MaxRGB(c) ELSE 0

\* _compute_chromaticity_vector in thousandths: the three masked
\* assignments run in the order R, G, B, so the G branch overwrites the R
\* branch when R ties with G
Chromaticity(c) ==
  LET R == c[1]
      G == c[2]
      B == c[3]
      d == 255 * (MaxRGB(c) - MinRGB(c))
      r_dominant == R >= G /\ R >= B
      g_dominant == G >= R /\ G >= B
  IN IF Saturation(c) = 0 THEN 0
     ELSE IF g_dominant THEN ((B - R) * MaxRGB(c) * 1000) \div d + 2000
     ELSE IF r_dominant THEN ((G - B) * MaxRGB(c) * 1000) \div d
     ELSE ((R - G) * MaxRGB(c) * 1000) \div d + 4000

\* cv2.cvtColor(frame, COLOR_BGR2GRAY)
Gray(c) == (299 * c[1] + 587 * c[2] + 114 * c[3] + 500) \div 1000

ValidMask(c) == Saturation(c) > SaturationThreshold /\ Gray(c) < HighlightThreshold

\* ChromaticityAccumulator(buffer_size)
AccumulatorNew(buffer_size) ==
  [buffer_size |-> buffer_size, frame_buffer |-> <<>>, s_max |-> None,
   c_sum |-> None, n_count |-> None, initialized |-> FALSE, frame_count |-> 0]

\* the accumulator the coordinator constructs
AccumulatorInit == AccumulatorNew(BufferSize)

\* add_frame storing the frame's saturation as S_max instead of the running
\* maximum (mutant of AccAddFrame)
AccAddFrameOverwritesSmax(acc, frame) ==
  LET c(i) == RGB(frame.px[i])
      c0(i) == IF acc.initialized THEN Get(acc.c_sum)[i] ELSE 0
      n0(i) == IF acc.initialized THEN Get(acc.n_count)[i] ELSE 0
  IN [buffer_size |-> acc.buffer_size,
      frame_buffer |-> DequeAppend(acc.frame_buffer, frame, acc.buffer_size),
      s_max |-> Some([i \in Pixels(frame) |-> Saturation(c(i))]),
      c_sum |-> Some([i \in Pixels(frame) |->
                  IF ValidMask(c(i)) THEN c0(i) + Chromaticity(c(i)) ELSE c0(i)]),
      n_count |-> Some([i \in Pixels(frame) |->
                  IF ValidMask(c(i)) THEN n0(i) + 1 ELSE n0(i)]),
      initialized |-> TRUE,
      frame_count |-> acc.frame_count + 1]

\* add_frame: the arrays are created on the first frame; the frame joins the
\* ring; S_max, C_sum and N are updated pixel by pixel
AccAddFrame(acc, frame) ==
  LET c(i) == RGB(frame.px[i])
      s0(i) == IF acc.initialized THEN Get(acc.s_max)[i] ELSE 0
      c0(i) == IF acc.initialized THEN Get(acc.c_sum)[i] ELSE 0
      n0(i) == IF acc.initialized THEN Get(acc.n_count)[i] ELSE 0
  IN [buffer_size |-> acc.buffer_size,
      frame_buffer |-> DequeAppend(acc.frame_buffer, frame, acc.buffer_size),
      s_max |-> Some([i \in Pixels(frame) |-> Max2(s0(i), Saturation(c(i)))]),
      c_sum |-> Some([i \in Pixels(frame) |->
                  IF ValidMask(c(i)) THEN c0(i) + Chromaticity(c(i)) ELSE c0(i)]),
      n_count |-> Some([i \in Pixels(frame) |->
                  IF ValidMask(c(i)) THEN n0(i) + 1 ELSE n0(i)]),
      initialized |-> TRUE,
      frame_count |-> acc.frame_count + 1]

\* the observation threshold without its floor of 5 (mutant of
\* MinObservations)
MinObservationsThird(acc) == acc.buffer_size \div 3

\* min_observations of generate_hologram_map
MinObservations(acc) == Max2(acc.buffer_size \div 3, 5)

Abs(x) == IF x >= 0 THEN x ELSE -x

\* the largest value of an array
ArrayMax(f) == CHOOSE v \in {f[i] : i \in DOMAIN f} : \A i \in DOMAIN f : f[i] <= v

\* the shape of the map returned before any frame was added
DefaultShape == {1, 2}

\* M = |C_sum / N| in thousandths, 0 where N = 0
MeanMagnitude(acc) ==
  [i \in DOMAIN Get(acc.n_count) |->
     IF Get(acc.n_count)[i] > 0
       THEN Abs(Get(acc.c_sum)[i] \div Get(acc.n_count)[i]) ELSE 0]

\* hologram_map before normalisation, in thousandths:
\* S_max * (1 - M / M_max), zeroed where N < min_observations
HologramScores(acc) ==
  LET M == MeanMagnitude(acc)
      M_max == IF ArrayMax(M) > 0 THEN ArrayMax(M) ELSE 1000
  IN [i \in DOMAIN M |->
        IF Get(acc.n_count)[i] < MinObservations(acc) THEN 0
        ELSE (Get(acc.s_max)[i] * (M_max - M[i])) \div M_max]

\* generate_hologram_map(normalize): the scores, or with normalize the
\* scores scaled to 0..255 and cast to uint8
GenerateHologramMap(acc, normalize) ==
  IF ~acc.initialized \/ acc.frame_count = 0 THEN [i \in DefaultShape |-> 0]
  ELSE LET map == HologramScores(acc)
       IN IF ~normalize THEN map
          ELSE IF ArrayMax(map) > 0
            THEN [i \in DOMAIN map |-> ((map[i] * 255) \div ArrayMax(map)) % 256]
            ELSE [i \in DOMAIN map |-> 0]

\* get_hologram_regions(threshold=0.5): the map is thresholded at half its
\* maximum (at 0.1 when it is zero everywhere); without a pixel above the
\* threshold there is no component and no region, else the components
\* larger than min_area give the regions
GetHologramRegions(acc) ==
  LET map == GenerateHologramMap(acc, FALSE)
      threshold_value == IF ArrayMax(map) > 0 THEN ArrayMax(map) \div 2 ELSE 100
  IN IF \A i \in DOMAIN map : map[i] <= threshold_value
       THEN {<<>>} ELSE {<<>>, <<<<0, 0, 2, 1>>>>}

AccReset(acc) == AccumulatorNew(acc.buffer_size)

\* ------------------------------------------------- DynamicBehaviorVerifier
\* DynamicBehaviorVerifier(background_frames, use_classifier); an untrained
\* classifier is there when use_classifier is set
VerifierNew(background_frames, use_classifier) ==
  [background_frames |-> background_frames, use_classifier |-> use_classifier,
   classifier_trained |-> FALSE, frame_buffer |-> <<>>,
   background_model |-> None, frame_count |-> 0]

\* the verifier the coordinator constructs with use_ml_classifier = False
VerifierInit == VerifierNew(BackgroundFrames, FALSE)

\* k-th smallest of a sequence of numbers
KthSmallest(vals, k) ==
  CHOOSE v \in {vals[i] : i \in DOMAIN vals} :
    /\ Cardinality({i \in DOMAIN vals : vals[i] < v}) < k
    /\ Cardinality({i \in DOMAIN vals : vals[i] <= v}) >= k

\* np.median(...).astype(np.uint8) of one channel
Median(vals) ==
  LET n == Len(vals)
  IN IF n % 2 = 1 THEN KthSmallest(vals, (n + 1) \div 2)
     ELSE (KthSmallest(vals, n \div 2) + KthSmallest(vals, n \div 2 + 1)) \div 2

\* _update_background_model
UpdateBackgroundModel(v) ==
  IF Len(v.frame_buffer) < MinBackgroundRing THEN v
  ELSE [v EXCEPT !.background_model =
          Some([p \in Pixels(v.frame_buffer[1]) |-> [ch \in 1..3 |->
             Median([i \in DOMAIN v.frame_buffer |->
                       RGB(v.frame_buffer[i].px[p])[ch]])]])]

\* add_frame with the background recomputed only while the ring is filling
\* up (mutant of VerAddFrame)
VerAddFrameStale(v, frame) ==
  LET v1 == [v EXCEPT !.frame_buffer =
                         DequeAppend(v.frame_buffer, frame, v.background_frames),
                      !.frame_count = v.frame_count + 1]
  IN IF Len(v1.frame_buffer) >= v.background_frames \div 2
          /\ Len(v1.frame_buffer) > Len(v.frame_buffer)
       THEN UpdateBackgroundModel(v1) ELSE v1

\* add_frame: the frame joins the ring; the background is recomputed when
\* the ring holds background_frames // 2 frames or more
VerAddFrame(v, frame) ==
  LET v1 == [v EXCEPT !.frame_buffer =
                         DequeAppend(v.frame_buffer, frame, v.background_frames),
                      !.frame_count = v.frame_count + 1]
  IN IF Len(v1.frame_buffer) >= v.background_frames \div 2
       THEN UpdateBackgroundModel(v1) ELSE v1

\* combined energies (percent) the difference image can show in a region
Energies == {9, 15, 30}

\* the decision taken at half the threshold (mutant of VerifyRegionHeuristic)
VerifyRegionHeuristicLenient(v, combined_energy) ==
  IF v.background_model = None THEN [is_hologram |-> FALSE, confidence |-> 0]
  ELSE [is_hologram |-> 2 * combined_energy > HueEnergyThreshold,
        confidence |-> Min2((combined_energy * 100) \div HueEnergyThreshold, 100)]

\* verify_region_heuristic: (is_hologram, confidence in percent)
VerifyRegionHeuristic(v, combined_energy) ==
  IF v.background_model = None THEN [is_hologram |-> FALSE, confidence |-> 0]
  ELSE [is_hologram |-> combined_energy > HueEnergyThreshold,
        confidence |-> Min2((combined_energy * 100) \div HueEnergyThreshold, 100)]

\* what a trained classifier answers on a region: the predicted class and
\* predict_proba of class 1, in percent
MlOutcomes ==
  {[is_hologram |-> FALSE, confidence |-> 30],
   [is_hologram |-> TRUE, confidence |-> 55],
   [is_hologram |-> TRUE, confidence |-> 90]}

\* verify_region_ml answering with the classifier whenever it is enabled,
\* trained or not (mutant of VerifyRegionMl)
VerifyRegionMlNoFallback(v, combined_energy, ml) ==
  IF ~v.use_classifier THEN VerifyRegionHeuristic(v, combined_energy)
  ELSE ml

\* verify_region_ml: the heuristic when the classifier is disabled or not
\* trained, else the classifier's answer
VerifyRegionMl(v, combined_energy, ml) ==
  IF ~v.use_classifier \/ ~v.classifier_trained
    THEN VerifyRegionHeuristic(v, combined_energy)
  ELSE ml

\* the result of one region in verify_regions
VerifyOne(v, combined_energy, ml) ==
  IF v.use_classifier /\ v.classifier_trained
    THEN VerifyRegionMl(v, combined_energy, ml)
    ELSE VerifyRegionHeuristic(v, combined_energy)

\* verify_regions returning the results last region first (mutant of
\* VerifyRegions)
VerifyRegionsReversed(v, regions, energy, ml) ==
  [i \in DOMAIN regions |->
     LET k == Len(regions) + 1 - i
     IN [bbox |-> regions[k],
         is_hologram |-> VerifyOne(v, energy[k], ml[k]).is_hologram,
         confidence |-> VerifyOne(v, energy[k], ml[k]).confidence]]

\* verify_regions: one result per region, in order
VerifyRegions(v, regions, energy, ml) ==
  [i \in DOMAIN regions |->
     [bbox |-> regions[i],
      is_hologram |-> VerifyOne(v, energy[i], ml[i]).is_hologram,
      confidence |-> VerifyOne(v, energy[i], ml[i]).confidence]]

\* train_classifier: ValueError when the classifier is not enabled
TrainClassifier(v) ==
  IF ~v.use_classifier THEN [dbv |-> v, raised |-> TRUE]
  ELSE [dbv |-> [v EXCEPT !.classifier_trained = TRUE], raised |-> FALSE]

\* reset: the ring, the background and the frame counter; the classifier
\* stays as it is
VerReset(v) ==
  [v EXCEPT !.frame_buffer = <<>>, !.background_model = None, !.frame_count = 0]

\* --------------------------------- HologramVerifier._merge_overlapping_regions
\* (x, y, w, h) -> (x1, y1, x2, y2)
ToCorners(r) == <<r[1], r[2], r[1] + r[3], r[2] + r[4]>>
\* (x1, y1, x2, y2) -> (x, y, w, h)
FromCorners(b) == <<b[1], b[2], b[3] - b[1], b[4] - b[2]>>

BoxArea(b) == (b[3] - b[1]) * (b[4] - b[2])

Intersection(a, b) ==
  Max2(0, Min2(a[3], b[3]) - Max2(a[1], b[1])) *
  Max2(0, Min2(a[4], b[4]) - Max2(a[2], b[2]))

\* the union taken as the sum of the two areas (mutant of Union)
UnionOfAreas(a, b) == BoxArea(a) + BoxArea(b)

Union(a, b) == BoxArea(a) + BoxArea(b) - Intersection(a, b)

\* iou <= iou_threshold, the test a candidate passes to stay in the running
\* (0/0 is nan, and nan <= threshold is false)
IouWithin(a, b) ==
  Union(a, b) # 0 /\ Intersection(a, b) * 100 <= IouThreshold * Union(a, b)

\* the orders of the indices 1..n
IndexOrders(n) ==
  {p \in [1..n -> 1..n] : \A i, j \in 1..n : i # j => p[i] # p[j]}

\* the sort keyed on y1 instead of y2 (mutant of ArgSorts)
ArgSortsByTop(regions) ==
  {p \in IndexOrders(Len(regions)) :
     \A i, j \in DOMAIN regions :
       i < j => ToCorners(regions[p[i]])[2] <= ToCorners(regions[p[j]])[2]}

\* np.argsort(boxes[:, 3]) for the boxes of a region list: the index orders
\* ascending in y2; the order of equal keys is not fixed by the sort
ArgSorts(regions) ==
  {p \in IndexOrders(Len(regions)) :
     \A i, j \in DOMAIN regions :
       i < j => ToCorners(regions[p[i]])[4] <= ToCorners(regions[p[j]])[4]}

\* the while loop: pick the last index, keep those of the rest within the
\* threshold of it
RECURSIVE NmsLoop(_, _, _)
NmsLoop(boxes, indices, keep) ==
  IF indices = <<>> THEN keep
  ELSE LET i == Last(indices)
           rest == SubSeq(indices, 1, Len(indices) - 1)
           IsWithin(j) == IouWithin(boxes[i], boxes[j])
       IN IF Len(indices) = 1 THEN Append(keep, i)
          ELSE NmsLoop(boxes, SelectSeq(rest, IsWithin), Append(keep, i))

\* indices kept, in pick order
NmsKeep(regions, indices) ==
  NmsLoop([k \in DOMAIN regions |-> ToCorners(regions[k])], indices, <<>>)

MergeOverlappingRegions(regions, indices) ==
  IF regions = <<>> THEN <<>>
  ELSE LET keep == NmsKeep(regions, indices)
       IN [k \in DOMAIN keep |-> FromCorners(ToCorners(regions[keep[k]]))]

\* -------------------------------------------------------- HologramVerifier
VARIABLES
  hv,    \* the coordinator's own fields
  fa,    \* frame_aligner
  acc,   \* accumulator
  dbv,   \* behavior_verifier
  vs,    \* the process_video_stream call in progress, or its result
  last,  \* the last call made: what it was and how it ended
  nms,   \* a call of _merge_overlapping_regions on its own: input and output
  ret    \* what the last call of a component's method on its own returned

vars == <<hv, fa, acc, dbv, vs, last, nms, ret>>

\* the coordinator's own attributes after __init__
HvNew(update_interval, confidence_threshold) ==
  [update_interval |-> update_interval,
   confidence_threshold |-> confidence_threshold,
   frame_count |-> 0, reference_set |-> FALSE, verified_regions |-> <<>>,
   processing_times |-> <<>>, last_hologram_map |-> None, last_regions |-> <<>>]

HvInit == HvNew(UpdateInterval, ConfidenceThreshold)

\* str.lower() on the detector names in use
Lower(str) == IF str = "ORB" THEN "orb" ELSE str

\* HologramVerifier(...): the components are constructed in the order
\* aligner, accumulator, selector, verifier; FrameAligner raises ValueError
\* on an unknown detector and deque(maxlen = buffer_size) on a negative
\* length; nothing else is tested
HologramVerifierNew(cfg) ==
  [raised |-> Lower(cfg.feature_detector) \notin {"orb", "sift"}
                \/ cfg.buffer_size < 0,
   hv |-> HvNew(cfg.update_interval, cfg.confidence_threshold),
   fa |-> FrameAlignerInit,
   acc |-> AccumulatorNew(cfg.buffer_size),
   dbv |-> VerifierNew(BackgroundFrames, cfg.use_ml_classifier)]


RECURSIVE SeqsUpTo(_, _)
SeqsUpTo(S, n) ==
  IF n = 0 THEN {<<>>}
  ELSE LET shorter == SeqsUpTo(S, n - 1)
       IN shorter \cup {Append(q, x) : q \in {r \in shorter : Len(r) = n - 1}, x \in S}

\* what select_regions returns in the pipeline runs: nothing, one box, two
\* boxes of IoU 0.5 (the upper one first), two boxes of IoU 2/3
RegionLists ==
  {<<>>, <<<<0, 0, 2, 2>>>>, <<<<0, 0, 2, 1>>, <<0, 0, 2, 2>>>>,
   <<<<0, 0, 2, 3>>, <<0, 0, 2, 2>>>>}

\* what get_hologram_regions can return to process_frame
AccRegionChoices(a) == GetHologramRegions(a)

\* the gate testing the confidence alone (mutant of Gate)
GateConfidenceOnly(h, results) ==
  LET Passes(r) == r.confidence >= h.confidence_threshold
  IN SelectSeq(results, Passes)

\* the confidence gate of process_frame
Gate(h, results) ==
  LET Passes(r) == r.is_hologram /\ r.confidence >= h.confidence_threshold
  IN SelectSeq(results, Passes)

\* stage 1 entered when the aligner holds no reference, whatever
\* reference_set says (mutant of Stage)
StageTrustsAligner(h, a, frame, m) ==
  IF a.reference_frame = None
    THEN IF SetReferenceFrame(a, frame).raised THEN "reference_failed" ELSE "reference"
  ELSE IF AlignFrame(a, frame, m).raised THEN "align_raised"
  ELSE IF AlignFrame(a, frame, m).ok THEN "aligned" ELSE "align_fail"

\* which branch process_frame takes on a frame
Stage(h, a, frame, m) ==
  IF ~h.reference_set
    THEN IF SetReferenceFrame(a, frame).raised THEN "reference_failed" ELSE "reference"
  ELSE IF AlignFrame(a, frame, m).raised THEN "align_raised"
  ELSE IF AlignFrame(a, frame, m).ok THEN "aligned" ELSE "align_fail"

\* the schedule counted from the first frame after the reference (mutant of
\* MapDue)
MapDueSinceReference(h) ==
  h.update_interval # 0 /\ (h.frame_count - 1) % Abs(h.update_interval) = 0

\* map regeneration is due on the frame being processed (h.frame_count is
\* already incremented); Python's n % d is 0 exactly when |d| divides n
MapDue(h) ==
  h.update_interval # 0 /\ h.frame_count % Abs(h.update_interval) = 0

\* process_frame, stage 1: set_reference_frame raises and the exception
\* leaves process_frame
PfReferenceFailed(h, a, c, v, frame) ==
  [hv |-> h, fa |-> SetReferenceFrame(a, frame).fa, acc |-> c, dbv |-> v,
   raised |-> TRUE, frame |-> None, detections |-> <<>>,
   calls |-> <<"set_reference_frame">>]

\* process_frame, stage 1: the reference is set
PfReference(h, a, c, v, frame) ==
  [hv |-> [h EXCEPT !.reference_set = TRUE],
   fa |-> SetReferenceFrame(a, frame).fa, acc |-> c, dbv |-> v,
   raised |-> FALSE, frame |-> Some(frame), detections |-> <<>>,
   calls |-> <<"set_reference_frame">>]

\* process_frame, stage 2: align_frame raises
PfAlignRaised(h, a, c, v, frame, m) ==
  [hv |-> h, fa |-> AlignFrame(a, frame, m).fa, acc |-> c, dbv |-> v,
   raised |-> TRUE, frame |-> None, detections |-> <<>>,
   calls |-> <<"align_frame">>]

\* the frame added to the accumulator and the verifier before the success
\* flag is tested (mutant of PfAlignFail)
PfAlignFailAccumulates(h, a, c, v, frame, m) ==
  [hv |-> h, fa |-> AlignFrame(a, frame, m).fa,
   acc |-> AccAddFrame(c, frame), dbv |-> VerAddFrame(v, frame),
   raised |-> FALSE, frame |-> Some(frame), detections |-> <<>>,
   calls |-> <<"align_frame", "accumulator.add_frame", "verifier.add_frame">>]

\* process_frame, stage 2: alignment failed, the frame is skipped
PfAlignFail(h, a, c, v, frame, m) ==
  [hv |-> h, fa |-> AlignFrame(a, frame, m).fa, acc |-> c, dbv |-> v,
   raised |-> FALSE, frame |-> Some(frame), detections |-> <<>>,
   calls |-> <<"align_frame">>]

\* process_frame, stages 3 to 6 on an aligned frame
PfAligned(h, a, c, v, frame, m, accR, hsvR, order, energy, ml) ==
  LET aligned == AlignFrame(a, frame, m).aligned
      c1 == AccAddFrame(c, aligned)
      v1 == VerAddFrame(v, aligned)
      candidate_regions == MergeOverlappingRegions(
                             (IF MapDue(h) THEN accR ELSE <<>>) \o hsvR, order)
      detections == IF candidate_regions = <<>> THEN <<>>
                    ELSE Gate(h, VerifyRegions(v1, candidate_regions, energy, ml))
  IN IF h.update_interval = 0
       \* frame_count % 0: ZeroDivisionError after both add_frame calls
       THEN [hv |-> h, fa |-> AlignFrame(a, frame, m).fa, acc |-> c1, dbv |-> v1,
             raised |-> TRUE, frame |-> None, detections |-> <<>>,
             calls |-> <<"align_frame", "accumulator.add_frame",
                         "verifier.add_frame">>]
     ELSE
     [hv |-> [h EXCEPT !.last_regions = detections,
                       !.last_hologram_map =
                          IF MapDue(h) THEN Some(GenerateHologramMap(c1, TRUE))
                          ELSE h.last_hologram_map],
      fa |-> AlignFrame(a, frame, m).fa, acc |-> c1, dbv |-> v1,
      raised |-> FALSE, frame |-> Some(frame), detections |-> detections,
      calls |-> <<"align_frame", "accumulator.add_frame", "verifier.add_frame">>
                \o (IF MapDue(h)
                      THEN <<"generate_hologram_map", "get_hologram_regions">>
                      ELSE <<>>)
                \o <<"select_regions", "_merge_overlapping_regions">>
                \o (IF candidate_regions = <<>> THEN <<>>
                    ELSE <<"verify_regions">>)]

\* process_frame: the state after the call, how it ended and what it returned
ProcessFrame(h, a, c, v, frame, m, accR, hsvR, order, energy, ml) ==
  LET h1 == [h EXCEPT !.frame_count = h.frame_count + 1]
      stage == Stage(h, a, frame, m)
  IN CASE stage = "reference_failed" -> PfReferenceFailed(h1, a, c, v, frame)
       [] stage = "reference" -> PfReference(h1, a, c, v, frame)
       [] stage = "align_raised" -> PfAlignRaised(h1, a, c, v, frame, m)
       [] stage = "align_fail" -> PfAlignFail(h1, a, c, v, frame, m)
       [] stage = "aligned" ->
            PfAligned(h1, a, c, v, frame, m, accR, hsvR, order, energy, ml)

\* the inputs process_frame reads on a frame, limited to those it uses
MatchChoices(h, a, frame) ==
  IF h.reference_set /\ a.reference_descriptors # None /\ frame.nkp >= MinKeypoints
    THEN MatchOutcomes
    ELSE {[good |-> MinGoodMatches, solved |-> TRUE, throws |-> FALSE]}

AccChoices(h, c, frame, stage) ==
  IF stage = "aligned" /\ MapDue([h EXCEPT !.frame_count = h.frame_count + 1])
    THEN AccRegionChoices(AccAddFrame(c, frame))
    ELSE {<<>>}

EnergyChoices(v, frame, stage, merged) ==
  IF /\ stage = "aligned"
     /\ VerAddFrame(v, frame).background_model # None
     /\ ~(v.use_classifier /\ v.classifier_trained)
    THEN [DOMAIN merged -> Energies]
    ELSE {[i \in DOMAIN merged |-> 9]}

MlChoices(v, stage, merged) ==
  IF stage = "aligned" /\ v.use_classifier /\ v.classifier_trained
    THEN [DOMAIN merged -> MlOutcomes]
    ELSE {[i \in DOMAIN merged |-> [is_hologram |-> FALSE, confidence |-> 30]]}

\* every outcome process_frame can have on a frame when the four objects
\* are h, a, c, v, each with the branch taken
ProcessFrameOutcomesOf(h, a, c, v, frame) ==
  UNION {
    LET stage == Stage(h, a, frame, m)
    IN IF stage # "aligned"
         THEN {[r |-> ProcessFrame(h, a, c, v, frame, m,
                                   <<>>, <<>>, <<>>, <<>>, <<>>),
                stage |-> stage]}
         ELSE UNION {UNION {UNION {
                {[r |-> ProcessFrame(h, a, c, v, frame, m, accR, hsvR, order,
                                     ev[1], ev[2]),
                  stage |-> stage] :
                   ev \in EnergyChoices(v, frame, stage,
                            MergeOverlappingRegions(accR \o hsvR, order))
                          \X MlChoices(v, stage,
                               MergeOverlappingRegions(accR \o hsvR, order))} :
                order \in ArgSorts(accR \o hsvR)} :
                accR \in AccChoices(h, c, frame, stage)} :
                hsvR \in IF stage = "aligned" THEN RegionLists ELSE {<<>>}} :
    m \in MatchChoices(h, a, frame)}

\* every outcome process_frame can have on a frame in the current state
ProcessFrameOutcomes(frame) == ProcessFrameOutcomesOf(hv, fa, acc, dbv, frame)

\* detection_results of process_video_stream
ResultsInit ==
  [total_frames |-> 0, frames_with_detections |-> 0, verified_holograms |-> <<>>,
   confidence_scores |-> <<>>, avg_confidence |-> None, max_confidence |-> None]

VsIdle ==
  [pc |-> "idle", n |-> 0, pos |-> 0, max_frames |-> None, log |-> <<>>,
   results |-> ResultsInit]

LastInit ==
  [op |-> "init", stage |-> "none", raised |-> FALSE, input |-> None,
   frame |-> None, detections |-> <<>>, calls |-> <<>>]

NmsIdle == [regions |-> <<>>, called |-> FALSE, keep |-> <<>>, merged |-> <<>>]

RetIdle == [op |-> "none", args |-> None, value |-> None]

Constructed ==
  /\ hv = HvInit
  /\ fa = FrameAlignerInit
  /\ acc = AccumulatorInit
  /\ dbv = VerifierInit
  /\ vs = VsIdle
  /\ last = LastInit
  /\ ret = RetIdle

Init ==
  /\ Constructed
  /\ nms = NmsIdle

\* a caller hands one frame to process_frame
CallProcessFrame ==
  /\ vs.pc # "loop"
  /\ hv.frame_count < MaxFrames
  /\ \E frame \in Frames : \E o \in ProcessFrameOutcomes(frame) :
       /\ hv' = o.r.hv
       /\ fa' = o.r.fa
       /\ acc' = o.r.acc
       /\ dbv' = o.r.dbv
       /\ last' = [op |-> "process_frame", stage |-> o.stage, raised |-> o.r.raised,
                   input |-> Some(frame), frame |-> o.r.frame,
                   detections |-> o.r.detections, calls |-> o.r.calls]
       /\ vs' = VsIdle
       /\ UNCHANGED <<nms, ret>>

\* a caller hands one frame to frame_aligner.align_frame
CallAlignFrame ==
  /\ vs.pc # "loop"
  /\ \E frame \in Frames : \E m \in MatchChoices([reference_set |-> TRUE], fa, frame) :
       LET r == AlignFrame(fa, frame, m)
       IN /\ fa' = r.fa
          /\ last' = [op |-> "align_frame",
                      stage |-> IF r.raised THEN "align_raised"
                                ELSE IF r.ok THEN "aligned" ELSE "align_fail",
                      raised |-> r.raised, input |-> Some(frame),
                      frame |-> IF r.raised THEN None ELSE Some(r.aligned),
                      detections |-> <<>>, calls |-> <<>>]
          /\ vs' = VsIdle /\ UNCHANGED <<hv, acc, dbv, nms, ret>>

\* a caller blends one frame into the reference
CallUpdateReferenceFrame ==
  /\ vs.pc # "loop"
  /\ fa.reference_frame # None => Get(fa.reference_frame).gen < MaxBlends
  /\ \E frame \in Frames :
       \E nkp \in IF fa.reference_frame = None THEN {frame.nkp} ELSE KeypointCounts :
         LET r == UpdateReferenceFrame(fa, frame, nkp)
         IN /\ fa' = r.fa
            /\ last' = [op |-> "update_reference_frame",
                        stage |-> IF r.raised THEN "reference_failed" ELSE "reference",
                        raised |-> r.raised, input |-> Some(frame), frame |-> None,
                        detections |-> <<>>, calls |-> <<>>]
            /\ vs' = VsIdle /\ UNCHANGED <<hv, acc, dbv, nms, ret>>

\* reset() of the coordinator's own fields
HvReset(h) ==
  [h EXCEPT !.frame_count = 0, !.reference_set = FALSE, !.verified_regions = <<>>,
            !.processing_times = <<>>, !.last_hologram_map = None,
            !.last_regions = <<>>]

\* reset() taking the coordinator's frame counter from the accumulator it
\* has not reset yet (mutant of ResetAll)
ResetAllStaleCount(h, a, c, v) ==
  [hv |-> [HvReset(h) EXCEPT !.frame_count = c.frame_count],
   fa |-> a, acc |-> AccReset(c), dbv |-> VerReset(v)]

\* reset(): the state of the four objects after the call
ResetAll(h, a, c, v) ==
  [hv |-> HvReset(h), fa |-> a, acc |-> AccReset(c), dbv |-> VerReset(v)]

Reset ==
  /\ vs.pc # "loop"
  /\ hv' = ResetAll(hv, fa, acc, dbv).hv
  /\ fa' = ResetAll(hv, fa, acc, dbv).fa
  /\ acc' = ResetAll(hv, fa, acc, dbv).acc
  /\ dbv' = ResetAll(hv, fa, acc, dbv).dbv
  /\ last' = [op |-> "reset", stage |-> "none", raised |-> FALSE, input |-> None,
              frame |-> None, detections |-> <<>>, calls |-> <<>>]
  /\ vs' = VsIdle
  /\ UNCHANGED <<nms, ret>>

\* a caller trains the classifier of the coordinator's verifier
CallTrainClassifier ==
  /\ vs.pc # "loop"
  /\ dbv' = TrainClassifier(dbv).dbv
  /\ last' = [op |-> "train_classifier", stage |-> "none",
              raised |-> TrainClassifier(dbv).raised, input |-> None,
              frame |-> None, detections |-> <<>>, calls |-> <<>>]
  /\ vs' = VsIdle
  /\ UNCHANGED <<hv, fa, acc, nms, ret>>

\* ------------------------------------------------- process_video_stream
RECURSIVE SumSeq(_)
SumSeq(q) == IF q = <<>> THEN 0 ELSE q[1] + SumSeq(Tail(q))

RECURSIVE MaxSeq(_)
MaxSeq(q) == IF Len(q) = 1 THEN q[1] ELSE Max2(q[1], MaxSeq(Tail(q)))

\* "if max_frames and self.frame_count >= max_frames": 0 and None are falsy
LimitReached(max_frames, h) ==
  max_frames # None /\ Get(max_frames) # 0 /\ h.frame_count >= Get(max_frames)

\* total_frames counted inside the "if detections" block (mutant of
\* UpdateResults)
UpdateResultsInsideIf(res, h, detections) ==
  LET Rec(i) == [frame |-> h.frame_count, bbox |-> detections[i].bbox,
                 confidence |-> detections[i].confidence]
  IN IF detections = <<>> THEN res
     ELSE [res EXCEPT
             !.total_frames = res.total_frames + 1,
             !.frames_with_detections = res.frames_with_detections + 1,
             !.verified_holograms = res.verified_holograms \o
                                      [i \in DOMAIN detections |-> Rec(i)],
             !.confidence_scores = res.confidence_scores \o
                                     [i \in DOMAIN detections |-> detections[i].confidence]]

\* one confidence recorded per frame with detections, that of its first
\* detection (mutant of UpdateResults)
UpdateResultsScorePerFrame(res, h, detections) ==
  LET Rec(i) == [frame |-> h.frame_count, bbox |-> detections[i].bbox,
                 confidence |-> detections[i].confidence]
  IN [res EXCEPT
        !.total_frames = res.total_frames + 1,
        !.frames_with_detections =
           IF detections # <<>> THEN res.frames_with_detections + 1
           ELSE res.frames_with_detections,
        !.verified_holograms = res.verified_holograms \o
                                 [i \in DOMAIN detections |-> Rec(i)],
        !.confidence_scores = res.confidence_scores \o
                                (IF detections = <<>> THEN <<>>
                                 ELSE <<detections[1].confidence>>)]

\* the records of a frame put in front of the list (mutant of UpdateResults)
UpdateResultsPrepends(res, h, detections) ==
  LET Rec(i) == [frame |-> h.frame_count, bbox |-> detections[i].bbox,
                 confidence |-> detections[i].confidence]
  IN [res EXCEPT
        !.total_frames = res.total_frames + 1,
        !.frames_with_detections =
           IF detections # <<>> THEN res.frames_with_detections + 1
           ELSE res.frames_with_detections,
        !.verified_holograms = [i \in DOMAIN detections |-> Rec(i)] \o
                                 res.verified_holograms,
        !.confidence_scores = res.confidence_scores \o
                                [i \in DOMAIN detections |-> detections[i].confidence]]

\* the statistics update after process_frame returned; h is the
\* coordinator after the call
UpdateResults(res, h, detections) ==
  LET Rec(i) == [frame |-> h.frame_count, bbox |-> detections[i].bbox,
                 confidence |-> detections[i].confidence]
  IN [res EXCEPT
        !.total_frames = res.total_frames + 1,
        !.frames_with_detections =
           IF detections # <<>> THEN res.frames_with_detections + 1
           ELSE res.frames_with_detections,
        !.verified_holograms = res.verified_holograms \o
                                 [i \in DOMAIN detections |-> Rec(i)],
        !.confidence_scores = res.confidence_scores \o
                                [i \in DOMAIN detections |-> detections[i].confidence]]

\* the final statistics: the mean is kept as (sum, count)
FinalResults(res) ==
  IF res.confidence_scores = <<>> THEN res
  ELSE [res EXCEPT
          !.avg_confidence = Some(<<SumSeq(res.confidence_scores),
                                    Len(res.confidence_scores)>>),
          !.max_confidence = Some(MaxSeq(res.confidence_scores))]

StreamCall(stage) ==
  [op |-> "process_video_stream", stage |-> stage, raised |-> FALSE,
   input |-> None, frame |-> None, detections |-> <<>>, calls |-> <<>>]

\* process_video_stream is called on a source of n frames, display = False
\* (the default): no key is read between the frames
StartClip ==
  /\ vs.pc # "loop"
  /\ \E n \in 0..MaxClipLen, mf \in {None} \cup {Some(k) : k \in 0..MaxClipLen} :
       /\ hv.frame_count + n <= MaxFrames
       /\ vs' = [pc |-> "loop", n |-> n, pos |-> 0, max_frames |-> mf,
                 log |-> <<>>, results |-> ResultsInit]
  /\ last' = StreamCall("start")
  /\ UNCHANGED <<hv, fa, acc, dbv, nms, ret>>

\* cap.read() fails: the loop ends and the aggregate is returned
ClipEnd ==
  /\ vs.pc = "loop"
  /\ vs.pos = vs.n
  /\ vs' = [vs EXCEPT !.pc = "returned", !.results = FinalResults(vs.results)]
  /\ last' = StreamCall("returned")
  /\ UNCHANGED <<hv, fa, acc, dbv, nms, ret>>

\* a frame is read but the max_frames test ends the loop
ClipBreak ==
  /\ vs.pc = "loop"
  /\ vs.pos < vs.n
  /\ LimitReached(vs.max_frames, hv)
  /\ vs' = [vs EXCEPT !.pc = "returned", !.results = FinalResults(vs.results)]
  /\ last' = StreamCall("returned")
  /\ UNCHANGED <<hv, fa, acc, dbv, nms, ret>>

\* a frame is read and processed; an exception of process_frame leaves
\* process_video_stream through the finally block
ClipFrame ==
  /\ vs.pc = "loop"
  /\ vs.pos < vs.n
  /\ ~LimitReached(vs.max_frames, hv)
  /\ \E frame \in Frames : \E o \in ProcessFrameOutcomes(frame) :
       LET entry == [feat |-> frame.nkp >= MinKeypoints, stage |-> o.stage]
       IN /\ fa' = o.r.fa
          /\ acc' = o.r.acc
          /\ dbv' = o.r.dbv
          /\ last' = [op |-> "process_frame", stage |-> o.stage,
                      raised |-> o.r.raised, input |-> Some(frame),
                      frame |-> o.r.frame, detections |-> o.r.detections,
                      calls |-> o.r.calls]
          /\ IF o.r.raised
               THEN /\ hv' = o.r.hv
                    /\ vs' = [vs EXCEPT !.pc = "raised", !.pos = vs.pos + 1,
                                        !.log = Append(vs.log, entry)]
               ELSE /\ hv' = [o.r.hv EXCEPT !.processing_times =
                                              Append(o.r.hv.processing_times, 1)]
                    /\ vs' = [vs EXCEPT !.pos = vs.pos + 1,
                                        !.log = Append(vs.log, entry),
                                        !.results = UpdateResults(vs.results, o.r.hv,
                                                                  o.r.detections)]
  /\ UNCHANGED <<nms, ret>>

Next ==
  \/ CallProcessFrame
  \/ CallAlignFrame
  \/ Reset

\* the frame interface: frames handed to process_frame and to align_frame
\* one call at a time, and resets
Spec == Init /\ [][Next]_vars

NextAligner ==
  \/ CallProcessFrame
  \/ CallAlignFrame
  \/ CallUpdateReferenceFrame
  \/ Reset

\* the frame interface with reference blending between the frames
SpecAligner == Init /\ [][NextAligner]_vars

NextStream ==
  \/ StartClip
  \/ ClipFrame
  \/ ClipBreak
  \/ ClipEnd
  \/ Reset

\* HologramVerifier(use_ml_classifier) for both values of the argument
InitModes ==
  /\ hv = HvInit
  /\ fa = FrameAlignerInit
  /\ acc = AccumulatorInit
  /\ \E u \in BOOLEAN : dbv = VerifierNew(BackgroundFrames, u)
  /\ vs = VsIdle
  /\ last = LastInit
  /\ nms = NmsIdle
  /\ ret = RetIdle

NextModes ==
  \/ CallProcessFrame
  \/ CallTrainClassifier
  \/ Reset

\* the frame interface in heuristic and in classifier mode, the classifier
\* being trained at any moment
SpecModes == InitModes /\ [][NextModes]_vars

\* the constructor arguments tried: the defaults and one argument changed
DefaultConfig ==
  [feature_detector |-> "orb", buffer_size |-> BufferSize,
   update_interval |-> UpdateInterval, use_ml_classifier |-> FALSE,
   confidence_threshold |-> ConfidenceThreshold]

Configs ==
  {DefaultConfig}
  \cup {[DefaultConfig EXCEPT !.feature_detector = d] : d \in {"sift", "ORB", "surf"}}
  \cup {[DefaultConfig EXCEPT !.buffer_size = b] : b \in {0, -1}}
  \cup {[DefaultConfig EXCEPT !.update_interval = u] : u \in {0, -1}}
  \cup {[DefaultConfig EXCEPT !.confidence_threshold = t] : t \in {-10, 0, 100, 150}}

\* HologramVerifier(**cfg) is called; when it raises there is no object and
\* nothing can follow
InitConfig ==
  \E cfg \in Configs :
    /\ hv = HologramVerifierNew(cfg).hv
    /\ fa = HologramVerifierNew(cfg).fa
    /\ acc = HologramVerifierNew(cfg).acc
    /\ dbv = HologramVerifierNew(cfg).dbv
    /\ vs = VsIdle
    /\ last = LastInit
    /\ nms = NmsIdle
    /\ ret = [op |-> "HologramVerifier", args |-> Some(cfg),
              value |-> Some(HologramVerifierNew(cfg).raised)]

NextConfig ==
  \/ ret.value = Some(FALSE) /\ CallProcessFrame
  \/ ret.value = Some(FALSE) /\ Reset

\* the frame interface of coordinators constructed with any of Configs
SpecConfig == InitConfig /\ [][NextConfig]_vars

\* coordinators in heuristic mode with confidence_threshold 0, 0.6 and 1
InitThresholds ==
  \E cfg \in {[DefaultConfig EXCEPT !.confidence_threshold = t] :
                 t \in {0, ConfidenceThreshold, 100}} :
    /\ hv = HologramVerifierNew(cfg).hv
    /\ fa = HologramVerifierNew(cfg).fa
    /\ acc = HologramVerifierNew(cfg).acc
    /\ dbv = HologramVerifierNew(cfg).dbv
    /\ vs = VsIdle
    /\ last = LastInit
    /\ nms = NmsIdle
    /\ ret = RetIdle

\* the clip interface of coordinators with each of these thresholds
SpecThresholds == InitThresholds /\ [][NextStream]_vars

\* the clip interface: process_video_stream calls and resets
SpecStream == Init /\ [][NextStream]_vars

\* ------------------------------------- _merge_overlapping_regions on its own
\* candidate boxes inside a GridW x GridH frame: those with a corner at the
\* origin, and the unit box in the opposite corner
NmsBoxes ==
  {<<0, 0, w, h>> : w \in 1..GridW, h \in 1..GridH}
    \cup {<<GridW - 1, GridH - 1, 1, 1>>}

InitNMS ==
  /\ Constructed
  /\ \E r \in SeqsUpTo(NmsBoxes, MaxBoxes) :
       nms = [regions |-> r, called |-> FALSE, keep |-> <<>>, merged |-> <<>>]

\* one call of _merge_overlapping_regions(regions)
MergeCall ==
  /\ ~nms.called
  /\ \E order \in ArgSorts(nms.regions) :
       nms' = [nms EXCEPT !.called = TRUE,
                          !.keep = IF nms.regions = <<>> THEN <<>>
                                   ELSE NmsKeep(nms.regions, order),
                          !.merged = MergeOverlappingRegions(nms.regions, order)]
  /\ UNCHANGED <<hv, fa, acc, dbv, vs, last, ret>>

NextNMS == MergeCall

SpecNMS == InitNMS /\ [][NextNMS]_vars

\* ------------------------------------- ChromaticityAccumulator on its own
\* images handed to the accumulator: pixels without colour, a saturated
\* pixel, two channels tied for the maximum, a pixel below the saturation
\* threshold
AccFrames ==
  [px : {<<"gray", "gray">>, <<"red", "gray">>, <<"yellow", "red">>,
         <<"blue", "yellow">>, <<"pale", "gray">>},
   nkp : {12}, gen : {0}]

ComponentCall(op, frame) ==
  [op |-> op, stage |-> "none", raised |-> FALSE, input |-> frame,
   frame |-> None, detections |-> <<>>, calls |-> <<>>]

InitAccumulator ==
  /\ hv = HvInit
  /\ fa = FrameAlignerInit
  /\ \E b \in {BufferSize, 16} : acc = AccumulatorNew(b)
  /\ dbv = VerifierInit
  /\ vs = VsIdle
  /\ last = LastInit
  /\ nms = NmsIdle
  /\ ret = RetIdle

\* accumulator.add_frame(frame)
AccAdd ==
  /\ acc.frame_count < MaxAccFrames
  /\ \E frame \in AccFrames :
       /\ acc' = AccAddFrame(acc, frame)
       /\ last' = ComponentCall("accumulator.add_frame", Some(frame))
  /\ ret' = RetIdle
  /\ UNCHANGED <<hv, fa, dbv, vs, nms>>

\* accumulator.generate_hologram_map(normalize)
AccMap ==
  /\ \E normalize \in BOOLEAN :
       ret' = [op |-> "generate_hologram_map", args |-> Some(normalize),
               value |-> Some(GenerateHologramMap(acc, normalize))]
  /\ last' = ComponentCall("accumulator.generate_hologram_map", None)
  /\ UNCHANGED <<hv, fa, acc, dbv, vs, nms>>

\* accumulator.get_hologram_regions()
AccRegions ==
  /\ \E r \in GetHologramRegions(acc) :
       ret' = [op |-> "get_hologram_regions", args |-> None, value |-> Some(r)]
  /\ last' = ComponentCall("accumulator.get_hologram_regions", None)
  /\ UNCHANGED <<hv, fa, acc, dbv, vs, nms>>

\* accumulator.reset()
AccResetCall ==
  /\ acc' = AccReset(acc)
  /\ last' = ComponentCall("accumulator.reset", None)
  /\ ret' = RetIdle
  /\ UNCHANGED <<hv, fa, dbv, vs, nms>>

NextAccumulator ==
  \/ AccAdd
  \/ AccMap
  \/ AccRegions
  \/ AccResetCall

SpecAccumulator == InitAccumulator /\ [][NextAccumulator]_vars

\* ------------------------------------- DynamicBehaviorVerifier on its own
\* images handed to the verifier
VerFrames ==
  [px : {<<"gray", "gray">>, <<"red", "gray">>, <<"pale", "red">>},
   nkp : {12}, gen : {0}]

InitVerifier ==
  /\ hv = HvInit
  /\ fa = FrameAlignerInit
  /\ acc = AccumulatorInit
  /\ \E b \in {1, BackgroundFrames, 9}, u \in BOOLEAN : dbv = VerifierNew(b, u)
  /\ vs = VsIdle
  /\ last = LastInit
  /\ nms = NmsIdle
  /\ ret = RetIdle

\* behavior_verifier.add_frame(frame)
VerAdd ==
  /\ dbv.frame_count < MaxVerFrames
  /\ \E frame \in VerFrames :
       /\ dbv' = VerAddFrame(dbv, frame)
       /\ last' = ComponentCall("verifier.add_frame", Some(frame))
  /\ ret' = RetIdle
  /\ UNCHANGED <<hv, fa, acc, vs, nms>>

\* region lists handed to verify_regions: none, one, two regions
VerRegionLists == {<<>>, <<<<0, 0, 2, 2>>>>, <<<<0, 0, 2, 1>>, <<0, 0, 2, 2>>>>}

\* for one region, what the difference image shows and what the classifier
\* would answer: pairs in which the two paths agree and pairs in which they
\* differ
Evidence ==
  {<<e, ml>> \in Energies \X MlOutcomes : e = 30 \/ ml.confidence = 90}

\* the evidence of the regions of a list
EvidenceChoices(regions) ==
  {<<[i \in DOMAIN regions |-> ev[i][1]], [i \in DOMAIN regions |-> ev[i][2]]>> :
     ev \in [DOMAIN regions -> Evidence]}

\* behavior_verifier.verify_regions(frame, regions)
VerVerify ==
  /\ \E regions \in VerRegionLists : \E ev \in EvidenceChoices(regions) :
       ret' = [op |-> "verify_regions",
               args |-> Some([regions |-> regions, energy |-> ev[1], ml |-> ev[2]]),
               value |-> Some(VerifyRegions(dbv, regions, ev[1], ev[2]))]
  /\ last' = ComponentCall("verifier.verify_regions", None)
  /\ UNCHANGED <<hv, fa, acc, dbv, vs, nms>>

\* behavior_verifier.verify_region_ml(frame, region)
VerVerifyMl ==
  /\ \E ev \in EvidenceChoices(<<<<0, 0, 2, 2>>>>) :
       ret' = [op |-> "verify_region_ml",
               args |-> Some([regions |-> <<<<0, 0, 2, 2>>>>, energy |-> ev[1],
                              ml |-> ev[2]]),
               value |-> Some(<<VerifyRegionMl(dbv, ev[1][1], ev[2][1])>>)]
  /\ last' = ComponentCall("verifier.verify_region_ml", None)
  /\ UNCHANGED <<hv, fa, acc, dbv, vs, nms>>

\* behavior_verifier.train_classifier(X, y)
VerTrain ==
  /\ dbv' = TrainClassifier(dbv).dbv
  /\ last' = [ComponentCall("verifier.train_classifier", None)
                 EXCEPT !.raised = TrainClassifier(dbv).raised]
  /\ ret' = RetIdle
  /\ UNCHANGED <<hv, fa, acc, vs, nms>>

\* behavior_verifier.reset()
VerResetCall ==
  /\ dbv' = VerReset(dbv)
  /\ last' = ComponentCall("verifier.reset", None)
  /\ ret' = RetIdle
  /\ UNCHANGED <<hv, fa, acc, vs, nms>>

NextVerifier ==
  \/ VerAdd
  \/ VerVerify
  \/ VerVerifyMl
  \/ VerTrain
  \/ VerResetCall

SpecVerifier == InitVerifier /\ [][NextVerifier]_vars

\* ------------------------------------------------ the service's verdicts
\* /verify_hologram: the response computed from the aggregate of
\* process_video_stream; the mean is kept as (sum, count)
VerifyHologramResponse(results) ==
  LET detections == results.verified_holograms
      confidences == results.confidence_scores
      min_detection_frames ==
        Max2(MinDetectionFrames, results.total_frames \div FrameShare)
      enough == Len(detections) >= min_detection_frames /\ confidences # <<>>
  IN [valid |-> enough /\ SumSeq(confidences) >= ServiceThreshold * Len(confidences),
      confidence |-> IF enough THEN <<SumSeq(confidences), Len(confidences)>>
                     ELSE <<0, 1>>,
      total_frames |-> results.total_frames,
      detections_count |-> Len(detections)]

\* /verify_hologram_stream: the final record, computed from the confidences
\* collected frame by frame and the number of frames read
StreamFinalData(all_confidences, frame_number) ==
  [valid |-> all_confidences # <<>>
              /\ SumSeq(all_confidences) >= ServiceThreshold * Len(all_confidences),
   confidence |-> IF all_confidences = <<>> THEN <<0, 1>>
                  ELSE <<SumSeq(all_confidences), Len(all_confidences)>>,
   total_frames |-> frame_number,
   detections_count |-> Len(all_confidences)]

\* the aggregate of a clip of t frames with n detections, one per frame
\* while frames after the reference last; the service's verifier is in
\* heuristic mode, so every recorded confidence is 1.0
AggregateOf(t, n) ==
  FinalResults(
    [ResultsInit EXCEPT
       !.total_frames = t,
       !.frames_with_detections = Min2(n, t - 1),
       !.verified_holograms =
          [i \in 1..n |-> [frame |-> 1 + Min2(i, t - 1), bbox |-> <<0, 0, 2, 2>>,
                           confidence |-> 100]],
       !.confidence_scores = [i \in 1..n |-> 100]])

\* a clip has been processed: its aggregate is at hand
InitVerdict ==
  /\ hv = HvInit
  /\ fa = FrameAlignerInit
  /\ acc = AccumulatorInit
  /\ dbv = VerifierInit
  /\ last = LastInit
  /\ nms = NmsIdle
  /\ ret = RetIdle
  /\ \E t \in 0..MaxTotalFrames, n \in 0..MaxDetections :
       /\ n > 0 => t >= 2
       /\ vs = [VsIdle EXCEPT !.pc = "returned", !.n = t, !.pos = t,
                              !.results = AggregateOf(t, n)]

VerdictVerify ==
  /\ vs.pc = "returned"
  /\ ret' = [op |-> "verify_hologram", args |-> None,
             value |-> Some(VerifyHologramResponse(vs.results))]
  /\ UNCHANGED <<hv, fa, acc, dbv, vs, last, nms>>

VerdictStream ==
  /\ vs.pc = "returned"
  /\ ret' = [op |-> "verify_hologram_stream", args |-> None,
             value |-> Some(StreamFinalData(vs.results.confidence_scores,
                                            vs.results.total_frames))]
  /\ UNCHANGED <<hv, fa, acc, dbv, vs, last, nms>>

NextVerdict ==
  \/ VerdictVerify
  \/ VerdictStream

\* the two endpoints' verdicts on the aggregate of one clip
SpecVerdict == InitVerdict /\ [][NextVerdict]_vars

\* --------------------------------------- the service's shared verifier
\* the handlers of /verify_hologram run on one event loop: a handler runs
\* from one await to the next without another handler running in between.
\* ret holds the service: the requests suspended at "await video.read()",
\* the requests received so far, whether a handler is inside
\* process_video_stream, and the last response sent
ServiceState(pending, received, active) ==
  [pending |-> pending, received |-> received, active |-> active]

\* startup_event: the one verifier is constructed
InitService ==
  /\ hv = HvInit
  /\ fa = FrameAlignerInit
  /\ acc = AccumulatorInit
  /\ dbv = VerifierInit
  /\ vs = VsIdle
  /\ last = LastInit
  /\ nms = NmsIdle
  /\ ret = [op |-> "startup", args |-> Some(ServiceState(0, 0, FALSE)),
            value |-> None]

\* a request arrives, passes the name, extension and size tests and is
\* suspended reading its upload
ServiceAccept ==
  /\ ~Get(ret.args).active
  /\ Get(ret.args).received < MaxRequests
  /\ ret' = [ret EXCEPT !.args = Some(ServiceState(Get(ret.args).pending + 1,
                                                   Get(ret.args).received + 1,
                                                   FALSE))]
  /\ UNCHANGED <<hv, fa, acc, dbv, vs, last, nms>>

\* a suspended request resumes and calls
\* verifier.process_video_stream(path, display=False, max_frames=None)
ServiceStart ==
  /\ ~Get(ret.args).active
  /\ Get(ret.args).pending > 0
  /\ \E n \in 0..MaxClipLen :
       /\ hv.frame_count + n <= MaxFrames
       /\ vs' = [pc |-> "loop", n |-> n, pos |-> 0, max_frames |-> None,
                 log |-> <<>>, results |-> ResultsInit]
  /\ last' = StreamCall("start")
  /\ ret' = [op |-> "verify_hologram",
             args |-> Some(ServiceState(Get(ret.args).pending - 1,
                                        Get(ret.args).received, TRUE)),
             value |-> None]
  /\ UNCHANGED <<hv, fa, acc, dbv, nms>>

\* the upload cannot be opened as a video: process_video_stream raises
\* before it reads a frame and the handler answers 500
ServiceCannotOpen ==
  /\ ~Get(ret.args).active
  /\ Get(ret.args).pending > 0
  /\ ret' = [op |-> "verify_hologram",
             args |-> Some(ServiceState(Get(ret.args).pending - 1,
                                        Get(ret.args).received, FALSE)),
             value |-> Some([status |-> 500, valid |-> FALSE])]
  /\ last' = StreamCall("raised")
  /\ UNCHANGED <<hv, fa, acc, dbv, vs, nms>>

\* process_video_stream returned: the verdict is computed, the verifier is
\* reset and the response is sent
ServiceRespond ==
  /\ Get(ret.args).active
  /\ vs.pc = "returned"
  /\ hv' = ResetAll(hv, fa, acc, dbv).hv
  /\ fa' = ResetAll(hv, fa, acc, dbv).fa
  /\ acc' = ResetAll(hv, fa, acc, dbv).acc
  /\ dbv' = ResetAll(hv, fa, acc, dbv).dbv
  /\ ret' = [op |-> "verify_hologram",
             args |-> Some(ServiceState(Get(ret.args).pending,
                                        Get(ret.args).received, FALSE)),
             value |-> Some([status |-> 200,
                             valid |-> VerifyHologramResponse(vs.results).valid])]
  /\ last' = [op |-> "reset", stage |-> "none", raised |-> FALSE, input |-> None,
              frame |-> None, detections |-> <<>>, calls |-> <<>>]
  /\ vs' = VsIdle
  /\ UNCHANGED nms

\* process_video_stream raised: "except Exception" answers 500; the
\* verifier.reset() of the try block is not reached
ServiceError ==
  /\ Get(ret.args).active
  /\ vs.pc = "raised"
  /\ ret' = [op |-> "verify_hologram",
             args |-> Some(ServiceState(Get(ret.args).pending,
                                        Get(ret.args).received, FALSE)),
             value |-> Some([status |-> 500, valid |-> FALSE])]
  /\ last' = StreamCall("raised")
  /\ vs' = VsIdle
  /\ UNCHANGED <<hv, fa, acc, dbv, nms>>

NextService ==
  \/ ServiceAccept
  \/ ServiceStart
  \/ ServiceCannotOpen
  \/ ClipFrame
  \/ ClipEnd
  \/ ServiceRespond
  \/ ServiceError

\* /verify_hologram requests served by the one verifier of the service
SpecService == InitService /\ [][NextService]_vars

\* ================================================================= claims
\* overlap of two (x, y, w, h) boxes, computed from the definition
PropInter(r, q) ==
  LET ox == Min2(r[1] + r[3], q[1] + q[3]) - Max2(r[1], q[1])
      oy == Min2(r[2] + r[4], q[2] + q[4]) - Max2(r[2], q[2])
  IN IF ox > 0 /\ oy > 0 THEN ox * oy ELSE 0

PropUnion(r, q) == r[3] * r[4] + q[3] * q[4] - PropInter(r, q)

Range(q) == {q[i] : i \in DOMAIN q}

\* C1: when the coordinator is UNINITIALIZED and set_reference fails on the
\* incoming frame, process_frame returns normally with that frame and an
\* empty detection list, and the coordinator stays UNINITIALIZED.
C1_ReferenceFailurePassesThrough ==
  (last.op = "process_frame" /\ last.stage = "reference_failed") =>
    /\ ~last.raised
    /\ last.frame = last.input
    /\ last.detections = <<>>
    /\ ~hv.reference_set

\* C2: a clip of n frames none of which yields 10 features runs to its end
\* and returns an aggregate with total_frames = n and no detection.
C2_BlankClipRunsToEnd ==
  (/\ vs.pc \in {"returned", "raised"}
   /\ vs.max_frames = None
   /\ Len(vs.log) = vs.n
   /\ \A i \in DOMAIN vs.log : ~vs.log[i].feat) =>
    /\ vs.pc = "returned"
    /\ vs.results.total_frames = vs.n
    /\ vs.results.verified_holograms = <<>>

\* C3: if set_reference fails (in process_frame or in update_reference), the
\* coordinator's frame counter and reference flag and the aligner's cached
\* reference image, keypoints and descriptors are as before the call.
C3_FailedSetReferenceChangesNothing ==
  [][(last'.raised /\ last'.stage = "reference_failed") =>
       /\ hv'.frame_count = hv.frame_count
       /\ hv'.reference_set = hv.reference_set
       /\ fa' = fa]_vars

\* C4: in RUNNING, a frame whose alignment fails leaves the accumulator and
\* the verifier unchanged and is emitted with an empty detection list.
C4_AlignFailureLeavesStatistics ==
  [][(last'.op = "process_frame" /\ last'.stage = "align_fail") =>
       /\ acc' = acc
       /\ dbv' = dbv
       /\ ~last'.raised
       /\ last'.frame = last'.input
       /\ last'.detections = <<>>]_vars

\* C4 witness: an alignment failure after frames were accumulated and a
\* background was computed
C4_Witness ==
  /\ last.op = "process_frame"
  /\ last.stage = "align_fail"
  /\ acc.frame_count >= 2
  /\ dbv.background_model # None

\* no frame of the clip was aligned, and align failed on one at least
NoFrameAligned ==
  /\ \A i \in DOMAIN vs.log : vs.log[i].stage \in {"reference", "align_fail"}
  /\ \E i \in DOMAIN vs.log : vs.log[i].stage = "align_fail"

\* C5: pass-through law: a clip in which align returns ok = false for every
\* frame it is called on yields an aggregate with no detection,
\* frames_with_detections = 0 and total_frames equal to the number of frames
\* processed, which is the number of frames of the source when no max_frames
\* limit is given.
C5_PassThroughLaw ==
  (vs.pc \in {"returned", "raised"} /\ NoFrameAligned) =>
    /\ vs.pc = "returned"
    /\ vs.results.verified_holograms = <<>>
    /\ vs.results.confidence_scores = <<>>
    /\ vs.results.frames_with_detections = 0
    /\ vs.results.total_frames = Len(vs.log)
    /\ vs.max_frames = None => vs.results.total_frames = vs.n

\* C5 witness: a returned clip of several frames, align failing on each
C5_Witness ==
  /\ vs.pc = "returned"
  /\ vs.max_frames = None
  /\ vs.n >= 2
  /\ Len(vs.log) = vs.n
  /\ \A i \in DOMAIN vs.log : vs.log[i].stage = "align_fail"

\* the output of the call is made of input boxes
MergedIsSubset == Range(nms.merged) \subseteq Range(nms.regions)

PropY2(r) == r[2] + r[4]

\* the scenario of three proposals around the box at index p: p has the
\* largest y2 strictly, and a, b, c have IoU 0.8, 0.6 and 0.1 with it
Scenario(p, a, b, c) ==
  LET P == nms.regions[p]
  IN /\ Len(nms.regions) = 4
     /\ {p, a, b, c} = 1..4
     /\ \A k \in {a, b, c} : PropY2(nms.regions[k]) < PropY2(P)
     /\ 10 * PropInter(nms.regions[a], P) = 8 * PropUnion(nms.regions[a], P)
     /\ 10 * PropInter(nms.regions[b], P) = 6 * PropUnion(nms.regions[b], P)
     /\ 10 * PropInter(nms.regions[c], P) = 1 * PropUnion(nms.regions[c], P)

\* C7: the candidate with the largest y2 is kept; a candidate is dropped only
\* if its IoU with some kept candidate reaches 0.5, so every candidate whose
\* IoU with each kept candidate is below 0.5 is kept; of three proposals with
\* IoU 0.8, 0.6 and 0.1 against the picked box, exactly the picked box and
\* the 0.1 one survive.
C7_NothingDroppedWithoutCause ==
  nms.called =>
    /\ nms.regions # <<>> =>
         /\ nms.keep # <<>>
         /\ \A j \in DOMAIN nms.regions :
              PropY2(nms.regions[j]) <= PropY2(nms.regions[nms.keep[1]])
    /\ \A j \in DOMAIN nms.regions :
         j \notin Range(nms.keep) =>
           \E k \in Range(nms.keep) :
             2 * PropInter(nms.regions[j], nms.regions[k])
               >= PropUnion(nms.regions[j], nms.regions[k])
    /\ nms.merged = [k \in DOMAIN nms.keep |-> nms.regions[nms.keep[k]]]
    /\ \A p, a, b, c \in DOMAIN nms.regions :
         Scenario(p, a, b, c) =>
           /\ Len(nms.merged) = 2
           /\ Range(nms.merged) = {nms.regions[p], nms.regions[c]}

\* C7 witness: the call was made on the three-proposal scenario
C7_Witness ==
  /\ nms.called
  /\ \E p, a, b, c \in DOMAIN nms.regions : Scenario(p, a, b, c)

\* C8: after reset() every piece of coordinator and component state equals
\* its post-construction value, the aligner's reference included.
C8_ResetRestoresConstruction ==
  last.op = "reset" =>
    /\ hv = HvInit
    /\ acc = AccumulatorInit
    /\ dbv = VerifierInit
    /\ fa = FrameAlignerInit

\* C9: reset() is idempotent: a reset() right after a reset() changes nothing.
C9_ResetIdempotent ==
  [][(last.op = "reset" /\ last'.op = "reset") =>
       <<hv, fa, acc, dbv>>' = <<hv, fa, acc, dbv>>]_vars

\* C9 witness: a reset() of a coordinator that had processed frames
C9_Witness ==
  /\ last.op = "reset"
  /\ hv.frame_count = 0
  /\ ~hv.reference_set
  /\ fa.reference_frame # None

\* C10: once the reference is established, the reference image, keypoints
\* and descriptors are unchanged by align calls and by process_frame calls.
C10_ReferenceStable ==
  [][(\/ last'.op = "align_frame" /\ fa.reference_frame # None
      \/ last'.op = "process_frame" /\ hv.reference_set) => fa' = fa]_vars

\* C10 witness: a frame aligned by process_frame, two frames or more after
\* the reference frame
C10_Witness ==
  /\ last.op = "process_frame"
  /\ last.stage = "aligned"
  /\ hv.reference_set
  /\ hv.frame_count >= 3
  /\ fa.reference_frame # None

\* C11 as stated: align never raises: under every condition it is called in,
\* a failure is the return value (input frame, None, false), never an
\* exception.
C11_AlignNeverRaises ==
  last.op = "align_frame" =>
    /\ ~last.raised
    /\ last.stage = "align_fail" => last.frame = last.input

\* C11 amended: once a reference image is cached, align never raises: too
\* few keypoints or matches, a solver failure and an exception of the
\* matcher or the solver are all returned as (input frame, None, false); this
\* covers the align call inside process_frame.
C11_AlignFailureIsReturned ==
  /\ (last.op = "align_frame" /\ fa.reference_frame # None) =>
        /\ ~last.raised
        /\ last.stage = "align_fail" => last.frame = last.input
  /\ last.op = "process_frame" => last.stage # "align_raised"

\* C11 witness: align called on a feature-rich frame while the cached
\* reference has no descriptors (the matcher throws), reported as a failure
C11_Witness ==
  /\ last.op = "align_frame"
  /\ last.stage = "align_fail"
  /\ fa.reference_frame # None
  /\ fa.reference_descriptors = None
  /\ Get(last.input).nkp >= MinKeypoints

\* C12: after k frames ingested since construction or reset, N <= k and
\* 0 <= S_max <= 1 for every pixel, and neither S_max nor N decreases from
\* one add to the next.
C12_AccumulatorInvariant ==
  [][/\ acc'.initialized =>
          \A i \in DOMAIN Get(acc'.n_count) :
            /\ Get(acc'.n_count)[i] >= 0
            /\ Get(acc'.n_count)[i] <= acc'.frame_count
            /\ Get(acc'.s_max)[i] >= 0
            /\ Get(acc'.s_max)[i] <= 1000
     /\ (acc.initialized /\ acc'.initialized) =>
          \A i \in DOMAIN Get(acc'.n_count) :
            /\ Get(acc'.s_max)[i] >= Get(acc.s_max)[i]
            /\ Get(acc'.n_count)[i] >= Get(acc.n_count)[i]]_vars

\* C12 witness: a frame with a gray pixel added after one where the pixel
\* was saturated: S_max stays above the frame's saturation and N stays
\* below the number of frames
C12_Witness ==
  /\ acc.initialized
  /\ acc.frame_count >= 2
  /\ \E i \in DOMAIN Get(acc.n_count) :
       /\ Last(acc.frame_buffer).px[i] = "gray"
       /\ Get(acc.s_max)[i] > Saturation(RGB("gray"))
       /\ Get(acc.n_count)[i] >= 1
       /\ Get(acc.n_count)[i] < acc.frame_count

\* the ring still holds every frame ingested, and none of them has a
\* mask-valid pixel
NoValidPixelSeen ==
  /\ Len(acc.frame_buffer) = acc.frame_count
  /\ \A k \in DOMAIN acc.frame_buffer : \A i \in Pixels(acc.frame_buffer[k]) :
       ~ValidMask(RGB(acc.frame_buffer[k].px[i]))

\* N of a pixel, 0 before the arrays exist
PropN(i) == IF acc.initialized THEN Get(acc.n_count)[i] ELSE 0

PropCSum(a, i) == IF a.initialized THEN Get(a.c_sum)[i] ELSE 0
PropCount(a, i) == IF a.initialized THEN Get(a.n_count)[i] ELSE 0

\* (G - B) / S in thousandths, the R branch of the chromaticity scalar
PropRBranch(c) ==
  ((c[2] - c[3]) * MaxRGB(c) * 1000) \div (255 * (MaxRGB(c) - MinRGB(c)))

\* C14: the chromaticity scalar C a frame contributes at a pixel and the mean
\* C_sum / N (when N > 0) lie in [0, 6); C is never negative; when R ties
\* with G for the maximum channel, C is the R branch (G - B) / S.
C14_ChromaticityInRange ==
  [][last'.op = "accumulator.add_frame" =>
       \A i \in Pixels(Get(last'.input)) :
         LET c == RGB(Get(last'.input).px[i])
             C == PropCSum(acc', i) - PropCSum(acc, i)
         IN /\ PropCount(acc', i) > 0 =>
                 /\ PropCSum(acc', i) >= 0
                 /\ PropCSum(acc', i) < 6000 * PropCount(acc', i)
            /\ PropCount(acc', i) > PropCount(acc, i) =>
                 /\ C >= 0
                 /\ C < 6000
                 /\ (c[1] = c[2] /\ c[1] > c[3]) => C = PropRBranch(c)]_vars

\* 1 where the frame's pixel passes the validity mask, else 0
PropValid(frame, i) == IF ValidMask(RGB(frame.px[i])) THEN 1 ELSE 0

\* C15: the frame ring holds exactly the last min(k, buffer_size) ingested
\* frames in arrival order, k being the frames added since reset, the oldest
\* being discarded on overflow; an add that evicts a frame changes S_max,
\* C_sum and N by the new frame's contribution only.
C15_RingHoldsLastFrames ==
  [][last'.op = "accumulator.add_frame" =>
       LET f == Get(last'.input)
           old == acc.frame_buffer
           new == acc'.frame_buffer
           shift == Len(old) + 1 - Len(new)
       IN /\ acc'.frame_count = acc.frame_count + 1
          /\ Len(new) = Min2(acc'.frame_count, acc.buffer_size)
          /\ new[Len(new)] = f
          /\ \A j \in 1..(Len(new) - 1) : new[j] = old[j + shift]
          /\ shift = 1 =>
               \A i \in Pixels(f) :
                 /\ Get(acc'.n_count)[i] = Get(acc.n_count)[i] + PropValid(f, i)
                 /\ Get(acc'.c_sum)[i] = Get(acc.c_sum)[i]
                      + PropValid(f, i) * Chromaticity(RGB(f.px[i]))
                 /\ Get(acc'.s_max)[i] =
                      Max2(Get(acc.s_max)[i], Saturation(RGB(f.px[i])))]_vars

\* C15 witness: the ring is full after an eviction, and a pixel has more
\* observations than the ring has frames
C15_Witness ==
  /\ last.op = "accumulator.add_frame"
  /\ acc.frame_count > acc.buffer_size
  /\ Len(acc.frame_buffer) = acc.buffer_size
  /\ \E i \in DOMAIN Get(acc.n_count) : Get(acc.n_count)[i] > Len(acc.frame_buffer)

\* the channel values of a pixel over the frames of the verifier's ring
PropRing(p, ch) ==
  [k \in DOMAIN dbv.frame_buffer |-> RGB(dbv.frame_buffer[k].px[p])[ch]]

\* v has rank k in vals: fewer than k values are below it, k or more are
\* at most it
PropRank(vals, v, k) ==
  /\ Cardinality({i \in DOMAIN vals : vals[i] < v}) < k
  /\ Cardinality({i \in DOMAIN vals : vals[i] <= v}) >= k

\* b is the median of vals as an 8-bit value: the middle value, or the mean
\* of the two middle values with its fraction dropped
PropIsMedian(vals, b) ==
  LET n == Len(vals)
  IN IF n % 2 = 1
       THEN \E i \in DOMAIN vals : vals[i] = b /\ PropRank(vals, b, (n + 1) \div 2)
       ELSE \E i, j \in DOMAIN vals :
              /\ PropRank(vals, vals[i], n \div 2)
              /\ PropRank(vals, vals[j], n \div 2 + 1)
              /\ b = (vals[i] + vals[j]) \div 2

\* the background exists and is the per-pixel, per-channel median of the ring
BackgroundIsMedianOfRing ==
  /\ dbv.background_model # None
  /\ \A p \in Pixels(dbv.frame_buffer[1]) : \A ch \in 1..3 :
       PropIsMedian(PropRing(p, ch), Get(dbv.background_model)[p][ch])

\* the most frames the ring has held since construction or reset
MostHeld == Min2(dbv.frame_count, dbv.background_frames)

PropHeuristic(has_background, e) ==
  IF ~has_background THEN [is_hologram |-> FALSE, confidence |-> 0]
  ELSE [is_hologram |-> e > 15,
        confidence |-> IF e >= 15 THEN 100 ELSE (e * 100) \div 15]

\* C18: with the classifier enabled but not trained, verify_regions and
\* verify_region_ml return for every region exactly the heuristic's result
\* and raise nothing, also in the calls that follow a reset().
C18_UntrainedClassifierFallsBack ==
  [][(/\ ret'.op \in {"verify_regions", "verify_region_ml"}
      /\ dbv'.use_classifier
      /\ ~dbv'.classifier_trained) =>
       LET a == Get(ret'.args)
           out == Get(ret'.value)
       IN /\ ~last'.raised
          /\ Len(out) = Len(a.regions)
          /\ \A i \in DOMAIN out :
               LET h == PropHeuristic(dbv'.background_model # None, a.energy[i])
               IN /\ out[i].is_hologram = h.is_hologram
                  /\ out[i].confidence = h.confidence
                  /\ ret'.op = "verify_regions" => out[i].bbox = a.regions[i]]_vars

\* C18 witness: verify_region_ml on an untrained classifier, with a
\* background, where the classifier's answer would have differed
C18_Witness ==
  /\ ret.op = "verify_region_ml"
  /\ dbv.use_classifier
  /\ ~dbv.classifier_trained
  /\ dbv.background_model # None
  /\ Get(ret.args).ml[1].is_hologram # Get(ret.value)[1].is_hologram

\* C17: every detection process_frame emits, in heuristic and in classifier
\* mode, has is_hologram = true and a confidence within [0, 1] that is at
\* least confidence_threshold.
C17_EmittedDetectionsPassGate ==
  last.op = "process_frame" =>
    \A i \in DOMAIN last.detections :
      /\ last.detections[i].is_hologram
      /\ last.detections[i].confidence >= 0
      /\ last.detections[i].confidence <= 100
      /\ last.detections[i].confidence >= hv.confidence_threshold

\* C17 witness: a detection emitted by the trained classifier with a
\* confidence below 1
C17_Witness ==
  /\ last.op = "process_frame"
  /\ dbv.use_classifier
  /\ dbv.classifier_trained
  /\ \E i \in DOMAIN last.detections : last.detections[i].confidence < 100

\* C20: within one frame the emitted detections are in the order chosen by
\* NMS, non-increasing in y2 = y + h of their boxes.
C20_DetectionsInNmsOrder ==
  last.op = "process_frame" =>
    \A i, j \in DOMAIN last.detections :
      i < j => PropY2(last.detections[i].bbox) >= PropY2(last.detections[j].bbox)

\* C20 witness: a frame with two detections whose boxes differ in y2
C20_Witness ==
  /\ last.op = "process_frame"
  /\ Len(last.detections) = 2
  /\ PropY2(last.detections[1].bbox) > PropY2(last.detections[2].bbox)

\* the frame indices of the detection records of the clip under way
PropFrameIndices(v) ==
  [i \in DOMAIN v.results.verified_holograms |->
     v.results.verified_holograms[i].frame]

PropCalled(name) == \E i \in DOMAIN last.calls : last.calls[i] = name

\* C21: on an aligned frame the candidates include get_hologram_regions()
\* (and the map is regenerated) if and only if frame_count, which counts
\* every frame received since reset, is divisible by update_interval; a frame
\* whose alignment failed regenerates nothing and nothing is made up for on
\* the next aligned frame; select_regions is asked on every aligned frame.
C21_MapRegenerationSchedule ==
  [][(last'.op = "process_frame" /\ ~last'.raised) =>
       /\ hv'.frame_count = hv.frame_count + 1
       /\ IF last'.stage = "aligned"
            THEN /\ PropCalled("select_regions")'
                 /\ PropCalled("get_hologram_regions")' <=>
                      (hv'.frame_count % hv'.update_interval = 0)
                 /\ PropCalled("generate_hologram_map")' <=>
                      (hv'.frame_count % hv'.update_interval = 0)
                 /\ hv'.last_hologram_map =
                      IF hv'.frame_count % hv'.update_interval = 0
                        THEN Some(GenerateHologramMap(acc', TRUE))
                        ELSE hv.last_hologram_map
            ELSE /\ ~PropCalled("select_regions")'
                 /\ ~PropCalled("get_hologram_regions")'
                 /\ ~PropCalled("generate_hologram_map")'
                 /\ hv'.last_hologram_map = hv.last_hologram_map]_vars

\* C21 witness: the third frame is aligned after the second, on which the
\* regeneration was due, was not: no map exists and none is generated
C21_Witness ==
  /\ last.op = "process_frame"
  /\ last.stage = "aligned"
  /\ hv.frame_count = 3
  /\ hv.last_hologram_map = None
  /\ PropCalled("select_regions")
  /\ ~PropCalled("get_hologram_regions")

\* the configuration is out of range as the claim counts it
PropConfigInvalid(cfg) ==
  \/ cfg.feature_detector \notin {"orb", "sift"}
  \/ cfg.buffer_size < 1
  \/ cfg.update_interval < 1
  \/ cfg.confidence_threshold < 0
  \/ cfg.confidence_threshold > 100

\* C22: constructing a coordinator raises whenever feature_detector is not
\* 'orb' or 'sift' or buffer_size < 1, update_interval < 1 or
\* confidence_threshold is outside [0, 1]; no invalid value is first
\* detected by an exception while a frame is processed.
C22_InvalidConfigFailsAtConstruction ==
  ret.op = "HologramVerifier" =>
    /\ PropConfigInvalid(Get(ret.args)) => Get(ret.value)
    /\ ~(last.op = "process_frame" /\ last.raised /\ last.stage = "aligned")

\* C23: in every aggregate process_video_stream returns, the detection list
\* and the confidence list have equal length, frames_with_detections is at
\* most total_frames and at most the number of detections, avg_confidence
\* and max_confidence are present iff a detection was recorded, and a clip
\* of zero frames gives total_frames = 0 with empty lists.
C23_AggregateConsistent ==
  vs.pc = "returned" =>
    /\ Len(vs.results.verified_holograms) = Len(vs.results.confidence_scores)
    /\ \A i \in DOMAIN vs.results.verified_holograms :
         vs.results.verified_holograms[i].confidence = vs.results.confidence_scores[i]
    /\ vs.results.frames_with_detections <= vs.results.total_frames
    /\ vs.results.frames_with_detections <= Len(vs.results.verified_holograms)
    /\ (vs.results.avg_confidence # None) <=> (vs.results.verified_holograms # <<>>)
    /\ (vs.results.max_confidence # None) <=> (vs.results.verified_holograms # <<>>)
    /\ vs.n = 0 => /\ vs.results.total_frames = 0
                   /\ vs.results.verified_holograms = <<>>
                   /\ vs.results.confidence_scores = <<>>

\* C23 witness: a returned aggregate with a frame without detections and a
\* frame with two
C23_Witness ==
  /\ vs.pc = "returned"
  /\ vs.results.frames_with_detections < vs.results.total_frames
  /\ vs.results.frames_with_detections < Len(vs.results.verified_holograms)
  /\ vs.results.avg_confidence # None

\* the verdict the rule gives: n >= max(3, t / 10) with the real quotient,
\* and mean confidence >= confidence_threshold
PropVerdict(res) ==
  /\ Len(res.verified_holograms) >= MinDetectionFrames
  /\ FrameShare * Len(res.verified_holograms) >= res.total_frames
  /\ res.confidence_scores # <<>>
  /\ SumSeq(res.confidence_scores) >= ServiceThreshold * Len(res.confidence_scores)

\* C24: the validity verdict reported for a clip is true iff the number of
\* detections is at least max(3, total_frames/10) and the mean confidence is
\* at least confidence_threshold, for every total_frames and for both the
\* /verify_hologram response and the final record of /verify_hologram_stream.
C24_VerdictRule ==
  ret.op \in {"verify_hologram", "verify_hologram_stream"} =>
    (Get(ret.value).valid <=> PropVerdict(vs.results))

\* the largest collection size the configuration names
PropConfigBound == Max2(acc.buffer_size, dbv.background_frames)

\* the most boxes one frame can yield
PropMostRegions == 2

\* C25: after any number of frames processed, every collection owned by the
\* coordinator and its components (frame ring, background ring, timing
\* list, region lists) has a size bounded by the configuration, whatever
\* the number of frames processed.
C25_BoundedState ==
  /\ Len(acc.frame_buffer) <= acc.buffer_size
  /\ Len(dbv.frame_buffer) <= dbv.background_frames
  /\ Len(hv.last_regions) <= PropMostRegions
  /\ Len(hv.verified_regions) <= PropMostRegions
  /\ Len(hv.processing_times) <= PropConfigBound

\* C26: with max_frames = m one call of process_video_stream processes
\* exactly min(m, frames in the source) frames, the total_frames of the
\* aggregate it returns, whatever the coordinator processed in earlier
\* calls and for every m >= 0; with max_frames = None, all frames.
C26_MaxFramesPerCall ==
  (vs.pc = "returned" /\ last.op = "process_video_stream") =>
    vs.results.total_frames =
      IF vs.max_frames = None THEN vs.n ELSE Min2(Get(vs.max_frames), vs.n)

\* aligned frames needed before a background exists
PropBackgroundAfter == Max2(MinBackgroundRing, dbv.background_frames \div 2)

\* C27: no detection is emitted before a background exists: since
\* construction or the last reset() every frame has an empty detection list
\* until max(3, background_frames // 2) frames have been aligned, so the
\* first detection's frame index is at least 1 + max(3, background_frames // 2).
C27_NoDetectionBeforeBackground ==
  (last.op = "process_frame" /\ last.detections # <<>>) =>
    /\ dbv.background_model # None
    /\ dbv.frame_count >= PropBackgroundAfter
    /\ hv.frame_count >= 1 + PropBackgroundAfter

\* what verify_regions answers on one box showing the energy e
PropHeuristicResult(e) ==
  [bbox |-> <<0, 0, 2, 2>>,
   is_hologram |-> VerifyRegionHeuristic(dbv, e).is_hologram,
   confidence |-> VerifyRegionHeuristic(dbv, e).confidence]

\* C28: in heuristic mode is_hologram = true implies confidence = 1.0; so
\* every detection emitted without a trained classifier has confidence 1.0,
\* the gate rejects no region the heuristic marked as a hologram, for any
\* confidence_threshold in [0, 1], and avg_confidence, when present, is 1.0.
C28_HeuristicConfidenceIsOne ==
  ~(dbv.use_classifier /\ dbv.classifier_trained) =>
    /\ \A e \in Energies :
         PropHeuristicResult(e).is_hologram =>
           /\ PropHeuristicResult(e).confidence = 100
           /\ Gate(hv, <<PropHeuristicResult(e)>>) = <<PropHeuristicResult(e)>>
    /\ \A i \in DOMAIN last.detections : last.detections[i].confidence = 100
    /\ \A i \in DOMAIN vs.results.confidence_scores :
         vs.results.confidence_scores[i] = 100
    /\ vs.results.avg_confidence # None =>
         Get(vs.results.avg_confidence)[1] = 100 * Get(vs.results.avg_confidence)[2]

\* C28 witness: an aggregate with an average, returned by a coordinator of
\* confidence_threshold 1 that has a background
C28_Witness ==
  /\ vs.pc = "returned"
  /\ vs.results.avg_confidence # None
  /\ hv.confidence_threshold = 100
  /\ dbv.background_model # None
  /\ ~dbv.use_classifier

\* the outcome o of process_frame is the one the step just taken had: the
\* call ended the same way with the same detections and left the same
\* coordinator, accumulator and verifier, and the same aligner once a
\* reference is set
PropSameOutcome(o) ==
  /\ o.r.raised = last'.raised
  /\ o.stage = last'.stage
  /\ o.r.detections = last'.detections
  /\ o.r.frame = last'.frame
  /\ o.r.hv.frame_count = hv'.frame_count
  /\ o.r.hv.reference_set = hv'.reference_set
  /\ o.r.hv.last_hologram_map = hv'.last_hologram_map
  /\ o.r.hv.last_regions = hv'.last_regions
  /\ o.r.acc = acc'
  /\ o.r.dbv = dbv'
  /\ hv'.reference_set => o.r.fa = fa'
  /\ ~o.r.raised => vs'.results = UpdateResults(vs.results, o.r.hv, o.r.detections)

\* what a caller and the frames to come can see of an outcome: how the call
\* ended, what it returned, and the objects it left, the aligner counting
\* only once a reference is set
PropVisible(o) ==
  [raised |-> o.r.raised, stage |-> o.stage, frame |-> o.r.frame,
   detections |-> o.r.detections, hv |-> o.r.hv, acc |-> o.r.acc,
   dbv |-> o.r.dbv,
   fa |-> IF o.r.hv.reference_set THEN Some(o.r.fa) ELSE None]

\* while no reference is set, a frame has the outcomes it would have with a
\* freshly constructed aligner
PropAlignerIgnored ==
  ~hv.reference_set =>
    \A frame \in Frames :
      {PropVisible(o) : o \in ProcessFrameOutcomesOf(hv, fa, acc, dbv, frame)}
      = {PropVisible(o) :
           o \in ProcessFrameOutcomesOf(hv, FrameAlignerInit, acc, dbv, frame)}

\* a step of the clip interface: reset() leaves everything but the aligner
\* as constructed, a call starts from an empty aggregate, and a frame met
\* without a reference ends as one of the outcomes of a fresh aligner
PropResetStep ==
  /\ last'.op = "reset" =>
       /\ hv' = HvInit
       /\ acc' = AccumulatorInit
       /\ dbv' = VerifierInit
  /\ (last'.op = "process_video_stream" /\ last'.stage = "start") =>
       vs'.results = ResultsInit
  /\ (last'.op = "process_frame" /\ ~hv.reference_set) =>
       \E o \in ProcessFrameOutcomesOf(hv, FrameAlignerInit, acc, dbv,
                                       Get(last'.input)) :
         PropSameOutcome(o)

C30_VerifierResetAtRequestStart ==
  (ret.op = "verify_hologram" /\ last.op = "process_video_stream"
     /\ last.stage = "start") =>
    /\ hv.frame_count = 0
    /\ ~hv.reference_set
    /\ hv.processing_times = <<>>
    /\ acc = AccReset(acc)
    /\ dbv = VerReset(dbv)

====
